---- MODULE Spec2Model ----
(***************************************************************************)
(* The ISO8583 authorization transceiver of src/iso_client.py as a state   *)
(* machine: send_iso_authorization builds the request, encodes it, opens a *)
(* TCP socket, writes one length-prefixed frame, reads one length-prefixed *)
(* frame back and maps the decoded response to a result.                   *)
(*                                                                         *)
(* Bytes and characters are integers 0..255 (characters by ASCII code), a  *)
(* str or bytes value is a sequence of them.  The Iso8583 class and its    *)
(* dictionary are imported from a package that is not under src/; they are *)
(* modelled from sections 3, 4.1 and 4.2 of the specification.             *)
(*                                                                         *)
(* Spec is one call; SpecLive is Spec with fairness; SpecFrame starts at   *)
(* line 31 with any bytes for msg; SpecCodec gives the bytes of line 29 to *)
(* lines 51-52; SpecConc interleaves two calls, every variable being a     *)
(* function of the call; SpecPayout is the payout functions of             *)
(* src/utils/crypto_utils.py.                                              *)
(***************************************************************************)
EXTENDS Integers, Sequences, FiniteSets, TLC

VARIABLES
    pc,            \* position in send_iso_authorization
    inp,           \* the call's arguments and the clock reading of line 13
    iso,           \* the request object of line 12
    msg,           \* line 29
    msg_with_len,  \* line 35
    sock,          \* "none", "open" (descriptor held) or "closed"
    tstate,        \* the transport state of the socket
    lastOp,        \* the socket operation the last step issued
    ops,           \* how many times each socket operation was issued
    wire,          \* the bytes the socket has put on the wire
    peer,          \* what the host will deliver: [bytes, end]
    rpos,          \* how many of the host's bytes have been read
    raw_len,       \* line 38
    length,        \* line 42
    response,      \* lines 43-48
    iso_response,  \* lines 51-52
    failedAt,      \* the position at which an exception was raised, or "none"
    result         \* what the caller gets

vars == <<pc, inp, iso, msg, msg_with_len, sock, tstate, lastOp, ops, wire,
          peer, rpos, raw_len, length, response, iso_response, failedAt, result>>

----------------------------------------------------------------------------
(* Characters and strings *)

Digit(d) == 48 + d
DigitVal(c) == c - 48
IsDigit(c) == c >= 48 /\ c <= 57
AllDigits(s) == \A i \in 1..Len(s) : IsDigit(s[i])
Rep(c, n) == [i \in 1..n |-> c]
DigitsToStr(ds) == [i \in 1..Len(ds) |-> Digit(ds[i])]

\* Python's None, which is no string
None == <<-1>>

StrMinus == <<45>>
StrD == <<68>>
Str0100 == <<48, 49, 48, 48>>
Str0110 == <<48, 49, 49, 48>>
Str0210 == <<48, 50, 49, 48>>
Str00 == <<48, 48>>
Str05 == <<48, 53>>
Str96 == <<57, 54>>
Str000000 == <<48, 48, 48, 48, 48, 48>>
Str123456 == <<49, 50, 51, 52, 53, 54>>
Str5999 == <<53, 57, 57, 57>>
Str901 == <<57, 48, 49>>
StrTERMID01 == <<84, 69, 82, 77, 73, 68, 48, 49>>
Str840 == <<56, 52, 48>>

----------------------------------------------------------------------------
(* Field Dictionary (specification 4.1) *)

DictFields == {2, 3, 4, 7, 11, 12, 14, 18, 22, 25, 35, 39, 41, 49}

FieldSpec(n) ==
    CASE n = 2  -> [kind |-> "numeric", rule |-> "llvar", len |-> 19]
      [] n = 3  -> [kind |-> "numeric", rule |-> "fixed", len |-> 6]
      [] n = 4  -> [kind |-> "numeric", rule |-> "fixed", len |-> 12]
      [] n = 7  -> [kind |-> "numeric", rule |-> "fixed", len |-> 10]
      [] n = 11 -> [kind |-> "numeric", rule |-> "fixed", len |-> 6]
      [] n = 12 -> [kind |-> "numeric", rule |-> "fixed", len |-> 6]
      [] n = 14 -> [kind |-> "numeric", rule |-> "fixed", len |-> 4]
      [] n = 18 -> [kind |-> "numeric", rule |-> "fixed", len |-> 4]
      [] n = 22 -> [kind |-> "alphanumeric", rule |-> "fixed", len |-> 3]
      [] n = 25 -> [kind |-> "alphanumeric", rule |-> "fixed", len |-> 2]
      [] n = 35 -> [kind |-> "alphanumeric", rule |-> "llvar", len |-> 99]
      [] n = 39 -> [kind |-> "alphanumeric", rule |-> "fixed", len |-> 2]
      [] n = 41 -> [kind |-> "alphanumeric", rule |-> "fixed", len |-> 8]
      [] n = 49 -> [kind |-> "numeric", rule |-> "fixed", len |-> 3]

\* the fields MTI "0100" requires (specification 4.2)
Required0100 == {2, 3, 4, 7, 11}

----------------------------------------------------------------------------
(* Message Codec (specification 4.2) *)

Pow2(k) == CASE k = 0 -> 1 [] k = 1 -> 2 [] k = 2 -> 4 [] k = 3 -> 8
             [] k = 4 -> 16 [] k = 5 -> 32 [] k = 6 -> 64 [] k = 7 -> 128

RECURSIVE BitmapByte(_, _, _)
\* byte j (0..7) of the primary bitmap: bit b (0 = most significant) is field 8j+b+1
BitmapByte(present, j, b) ==
    IF b > 7 THEN 0
    ELSE (IF (8 * j + b + 1) \in present THEN Pow2(7 - b) ELSE 0)
         + BitmapByte(present, j, b + 1)

Bitmap(present) == [j \in 1..8 |-> BitmapByte(present, j - 1, 0)]

BitSet(bitmap, f) ==
    (bitmap[((f - 1) \div 8) + 1] \div Pow2(7 - ((f - 1) % 8))) % 2 = 1

BitmapFields(bitmap) == {f \in 1..64 : BitSet(bitmap, f)}

ValueOk(n, v) ==
    LET fs == FieldSpec(n) IN
    /\ Len(v) <= fs.len
    /\ fs.kind = "numeric" => AllDigits(v)

\* a fixed field is padded to its width, a variable one carries a 2-digit length
EncodeField(n, v) ==
    LET fs == FieldSpec(n) IN
    IF fs.rule = "fixed"
    THEN IF fs.kind = "numeric"
         THEN Rep(48, fs.len - Len(v)) \o v
         ELSE v \o Rep(32, fs.len - Len(v))
    ELSE <<Digit(Len(v) \div 10), Digit(Len(v) % 10)>> \o v

RECURSIVE EncodeFields(_, _)
EncodeFields(fields, f) ==
    IF f > 64 THEN << >>
    ELSE (IF f \in DOMAIN fields THEN EncodeField(f, fields[f]) ELSE << >>)
         \o EncodeFields(fields, f + 1)

Encode(m) ==
    IF ~(DOMAIN m.fields \subseteq DictFields) THEN [ok |-> FALSE, err |-> "UnknownField"]
    ELSE IF ~(Len(m.mti) = 4 /\ AllDigits(m.mti))
              \/ (m.mti = Str0100 /\ ~(Required0100 \subseteq DOMAIN m.fields))
              \/ \E n \in DOMAIN m.fields : ~ValueOk(n, m.fields[n])
    THEN [ok |-> FALSE, err |-> "EncodingError"]
    ELSE [ok |-> TRUE,
          bytes |-> m.mti \o Bitmap(DOMAIN m.fields) \o EncodeFields(m.fields, 2)]

Slice(s, from, n) == [i \in 1..n |-> s[from + i - 1]]

RECURSIVE DecodeFields(_, _, _, _, _)
\* walks bit positions f..64; pos is the next unread byte
DecodeFields(bytes, bitmap, f, pos, acc) ==
    IF f > 64 THEN [ok |-> TRUE, fields |-> acc]
    ELSE IF ~BitSet(bitmap, f) THEN DecodeFields(bytes, bitmap, f + 1, pos, acc)
    ELSE IF f \notin DictFields THEN [ok |-> FALSE, err |-> "UnknownField"]
    ELSE LET fs == FieldSpec(f) IN
         IF fs.rule = "fixed"
         THEN IF pos + fs.len - 1 > Len(bytes)
              THEN [ok |-> FALSE, err |-> "TruncatedMessage"]
              ELSE DecodeFields(bytes, bitmap, f + 1, pos + fs.len,
                                (f :> Slice(bytes, pos, fs.len)) @@ acc)
         ELSE IF pos + 1 > Len(bytes)
              THEN [ok |-> FALSE, err |-> "TruncatedMessage"]
              ELSE IF ~(IsDigit(bytes[pos]) /\ IsDigit(bytes[pos + 1]))
              THEN [ok |-> FALSE, err |-> "MalformedField"]
              ELSE LET n == 10 * DigitVal(bytes[pos]) + DigitVal(bytes[pos + 1]) IN
                   IF pos + 2 + n - 1 > Len(bytes)
                   THEN [ok |-> FALSE, err |-> "TruncatedMessage"]
                   ELSE DecodeFields(bytes, bitmap, f + 1, pos + 2 + n,
                                     (f :> Slice(bytes, pos + 2, n)) @@ acc)

Decode(bytes) ==
    IF Len(bytes) < 12 THEN [ok |-> FALSE, err |-> "TruncatedMessage"]
    ELSE LET r == DecodeFields(bytes, Slice(bytes, 5, 8), 2, 13, << >>) IN
         IF r.ok THEN [ok |-> TRUE, mti |-> Slice(bytes, 1, 4), fields |-> r.fields]
         ELSE r

----------------------------------------------------------------------------
(* The request of lines 12-27 *)

\* f"{amount_cents:012}": sign-aware zero padding to width 12, never truncating;
\* a str argument has no such format
Format012(a) ==
    IF a.kind # "int" THEN [ok |-> FALSE, err |-> "ValueError"]
    ELSE LET body == DigitsToStr(a.digits)
             sign == IF a.neg THEN StrMinus ELSE << >>
             pad == 12 - Len(sign) - Len(body)
         IN [ok |-> TRUE, str |-> sign \o Rep(48, IF pad > 0 THEN pad ELSE 0) \o body]

NewIso == [mti |-> << >>, fields |-> << >>]
SetMti(m, v) == [m EXCEPT !.mti = v]
SetBit(m, n, v) == [m EXCEPT !.fields = (n :> v) @@ @]

\* BuildRequest with the response's local-time field set as well
BuildRequestWith12(i, amt) ==
    LET m0 == SetMti(NewIso, Str0100)
        m2 == SetBit(m0, 2, i.pan)
        m3 == SetBit(m2, 3, Str000000)
        m4 == SetBit(m3, 4, amt)
        m7 == SetBit(m4, 7, i.now)
        m11 == SetBit(m7, 11, Str123456)
        m12 == SetBit(m11, 12, Str123456)
        m14 == SetBit(m12, 14, i.expiry)
        m18 == SetBit(m14, 18, Str5999)
        m22 == SetBit(m18, 22, Str901)
        m25 == SetBit(m22, 25, Str00)
        m35 == SetBit(m25, 35, i.pan \o StrD \o i.expiry \o i.cvv)
        m41 == SetBit(m35, 41, StrTERMID01)
    IN SetBit(m41, 49, Str840)

\* lines 15-27, given the formatted amount
BuildRequest(i, amt) ==
    LET m0 == SetMti(NewIso, Str0100)
        m2 == SetBit(m0, 2, i.pan)
        m3 == SetBit(m2, 3, Str000000)
        m4 == SetBit(m3, 4, amt)
        m7 == SetBit(m4, 7, i.now)
        m11 == SetBit(m7, 11, Str123456)
        m14 == SetBit(m11, 14, i.expiry)
        m18 == SetBit(m14, 18, Str5999)
        m22 == SetBit(m18, 22, Str901)
        m25 == SetBit(m22, 25, Str00)
        m35 == SetBit(m25, 35, i.pan \o StrD \o i.expiry \o i.cvv)
        m41 == SetBit(m35, 41, StrTERMID01)
    IN SetBit(m41, 49, Str840)

\* Handler catching socket errors only: anything else leaves the function
HandlerSocketOnly(e) ==
    IF e \in {"OSError", "Connection refused", "timed out", "Name or service not known",
              "Broken pipe", "Connection reset by peer"}
    THEN [kind |-> "error", approved |-> FALSE, error |-> e, field39 |-> Str96]
    ELSE [kind |-> "raised", error |-> e]

\* the except clause of lines 62-68: every Exception becomes a result
Handler(e) == [kind |-> "error", approved |-> FALSE, error |-> e, field39 |-> Str96]

----------------------------------------------------------------------------
(* Framing (lines 35, 42) *)

MaxFrame == 65535

\* PackFrame with the length in little-endian order, struct.pack("<H", n)
PackFrameLittleEndian(m) ==
    IF Len(m) > MaxFrame THEN [ok |-> FALSE, err |-> "struct.error"]
    ELSE [ok |-> TRUE, bytes |-> <<Len(m) % 256, Len(m) \div 256>> \o m]

\* struct.pack("!H", n) + msg: big-endian, and struct.error outside 0..65535
PackFrame(m) ==
    IF Len(m) > MaxFrame THEN [ok |-> FALSE, err |-> "struct.error"]
    ELSE [ok |-> TRUE, bytes |-> <<Len(m) \div 256, Len(m) % 256>> \o m]

\* struct.unpack("!H", raw_len)[0]
UnpackLen(h) == 256 * h[1] + h[2]

----------------------------------------------------------------------------
(* Inputs and the host *)

MaxChunk == 2

Pan16 == <<52, 49, 49, 49, 49, 49, 49, 49, 49, 49, 49, 49, 49, 49, 49, 49>>
Pan20 == Pan16 \o <<49, 49, 49, 49>>
Expiry2512 == <<50, 53, 49, 50>>
Cvv123 == <<49, 50, 51>>
Now1 == <<49, 49, 48, 51, 49, 56, 49, 52, 48, 48>>

IntAmount(neg, ds) == [kind |-> "int", neg |-> neg, digits |-> ds]

\* amount_cents: 0, 1000, 10^12 - 1, 10^12, -5 and a str
Amounts ==
    { IntAmount(FALSE, <<0>>), IntAmount(FALSE, <<1, 0, 0, 0>>),
      IntAmount(FALSE, Rep(9, 12)), IntAmount(FALSE, <<1>> \o Rep(0, 12)),
      IntAmount(TRUE, <<5>>), [kind |-> "str"] }

Inputs ==
    [pan : {Pan16, Pan20}, expiry : {Expiry2512}, cvv : {Cvv123},
     amount_cents : Amounts, now : {Now1}]

Prefix(s, n) == [i \in 1..n |-> s[i]]
IsPrefix(p, s) == Len(p) <= Len(s) /\ \A i \in 1..Len(p) : p[i] = s[i]
Min(a, b) == IF a < b THEN a ELSE b

Reply(mti, code, amt, with12) ==
    [mti |-> mti,
     fields |-> (39 :> code) @@ (4 :> amt)
                @@ (IF with12 THEN (12 :> Str123456) ELSE << >>)]

\* the message bodies a host may answer a request with
ReplyBodies(m) ==
    LET req == Decode(m)
        echo == IF req.ok /\ 4 \in DOMAIN req.fields
                THEN { Encode(Reply(Str0110, c, req.fields[4], w)).bytes :
                         c \in {Str00, Str05}, w \in BOOLEAN }
                ELSE {}
    IN echo \cup
       { Encode(Reply(Str0110, Str00, Rep(48, 12), TRUE)).bytes,
         Encode(Reply(Str0210, Str00, Rep(48, 12), TRUE)).bytes,
         Encode([mti |-> Str0110, fields |-> (39 :> Str00)]).bytes,
         Encode([mti |-> Str0110, fields |-> (12 :> Str123456)]).bytes,
         Str0110 \o <<4, 0, 0, 0, 0, 0, 0, 0>> \o Str00,
         <<1, 2, 3>>,
         << >> }

\* the host's own framing of a body (specification 6)
HostFrame(b) == <<Len(b) \div 256, Len(b) % 256>> \o b

\* what a host delivers before it closes, goes silent or resets
PeerScripts(m) ==
    LET frames == { HostFrame(b) : b \in ReplyBodies(m) } IN
    UNION { { [bytes |-> f, end |-> e] : e \in {"close", "hang"} }
            \cup { [bytes |-> f \o <<7, 7>>, end |-> "close"] }
            \cup { [bytes |-> Prefix(f, n), end |-> e] :
                     n \in {0, 1, 2, 3, Len(f) - 1} \cap 0..(Len(f) - 1),
                     e \in {"close", "hang", "reset"} }
          : f \in frames }

\* the sizes recv(n) may return when avail bytes are still to come
ChunkSizes(n, avail) ==
    { k \in 1..Min(n, avail) : k <= MaxChunk \/ k = Min(n, avail) }

----------------------------------------------------------------------------
(* send_iso_authorization, lines 10-68 *)

Init ==
    /\ pc = "build"
    /\ inp \in Inputs
    /\ iso = NewIso
    /\ msg = << >>
    /\ msg_with_len = << >>
    /\ sock = "none"
    /\ tstate = "Idle"
    /\ lastOp = "none"
    /\ ops = [socket |-> 0, connect |-> 0, sendall |-> 0, recv_hdr |-> 0, close |-> 0]
    /\ wire = << >>
    /\ peer = [bytes |-> << >>, end |-> "close"]
    /\ rpos = 0
    /\ raw_len = << >>
    /\ length = 0
    /\ response = << >>
    /\ iso_response = NewIso
    /\ failedAt = "none"
    /\ result = [kind |-> "pending"]

\* an exception raised at position `at` reaches the except clause (lines 62-68),
\* which returns; nothing else is done on the way out
Fail(at, e) ==
    /\ pc' = "done"
    /\ failedAt' = at
    /\ result' = Handler(e)

Count(op) == [ops EXCEPT ![op] = @ + 1]

\* Build with the socket created first, as if line 31 stood before line 12
BuildSocketFirst ==
    /\ pc = "build"
    /\ LET amt == Format012(inp.amount_cents) IN
       IF amt.ok
       THEN /\ iso' = BuildRequest(inp, amt.str)
            /\ pc' = "encode"
            /\ UNCHANGED <<failedAt, result>>
       ELSE /\ iso' = SetBit(SetBit(SetMti(NewIso, Str0100), 2, inp.pan), 3, Str000000)
            /\ Fail("build", amt.err)
    /\ sock' = "open"
    /\ ops' = Count("socket")
    /\ lastOp' = "socket"
    /\ UNCHANGED <<inp, msg, msg_with_len, tstate, wire, peer, rpos,
                   raw_len, length, response, iso_response>>

\* lines 12-27
Build ==
    /\ pc = "build"
    /\ LET amt == Format012(inp.amount_cents) IN
       IF amt.ok
       THEN /\ iso' = BuildRequest(inp, amt.str)
            /\ pc' = "encode"
            /\ UNCHANGED <<failedAt, result>>
       ELSE /\ iso' = SetBit(SetBit(SetMti(NewIso, Str0100), 2, inp.pan), 3, Str000000)
            /\ Fail("build", amt.err)
    /\ lastOp' = "none"
    /\ UNCHANGED <<inp, msg, msg_with_len, sock, tstate, ops, wire, peer, rpos,
                   raw_len, length, response, iso_response>>

\* EncodeRequest with the codec's validation skipped: whatever was set is emitted
EncodeRequestUnchecked ==
    /\ pc = "encode"
    /\ msg' = iso.mti \o Bitmap(DOMAIN iso.fields) \o EncodeFields(iso.fields, 2)
    /\ pc' = "socket"
    /\ lastOp' = "none"
    /\ UNCHANGED <<inp, iso, msg_with_len, sock, tstate, ops, wire, peer, rpos,
                   raw_len, length, response, iso_response, failedAt, result>>

\* line 29
EncodeRequest ==
    /\ pc = "encode"
    /\ LET r == Encode(iso) IN
       IF r.ok
       THEN /\ msg' = r.bytes
            /\ pc' = "socket"
            /\ UNCHANGED <<failedAt, result>>
       ELSE /\ Fail("encode", r.err)
            /\ UNCHANGED msg
    /\ lastOp' = "none"
    /\ UNCHANGED <<inp, iso, msg_with_len, sock, tstate, ops, wire, peer, rpos,
                   raw_len, length, response, iso_response>>

\* lines 31-32
CreateSocket ==
    /\ pc = "socket"
    /\ sock' = "open"
    /\ pc' = "connect"
    /\ ops' = Count("socket")
    /\ lastOp' = "socket"
    /\ UNCHANGED <<inp, iso, msg, msg_with_len, tstate, wire, peer, rpos,
                   raw_len, length, response, iso_response, failedAt, result>>

\* line 31 raising: no descriptor is available
CreateSocketFail ==
    /\ pc = "socket"
    /\ Fail("socket", "OSError")
    /\ ops' = Count("socket")
    /\ lastOp' = "socket"
    /\ UNCHANGED <<inp, iso, msg, msg_with_len, sock, tstate, wire, peer, rpos,
                   raw_len, length, response, iso_response>>

\* line 33 returning: the host is now there, with what it is going to deliver
ConnectOk ==
    /\ pc = "connect"
    /\ \E p \in PeerScripts(msg) : peer' = p
    /\ tstate' = "Connected"
    /\ pc' = "pack"
    /\ ops' = Count("connect")
    /\ lastOp' = "connect"
    /\ UNCHANGED <<inp, iso, msg, msg_with_len, sock, wire, rpos,
                   raw_len, length, response, iso_response, failedAt, result>>

\* ConnectFail with the error swallowed: the exchange goes on unconnected
ConnectFailIgnored ==
    /\ pc = "connect"
    /\ pc' = "pack"
    /\ ops' = Count("connect")
    /\ lastOp' = "connect"
    /\ UNCHANGED <<inp, iso, msg, msg_with_len, sock, tstate, wire, peer, rpos,
                   raw_len, length, response, iso_response, failedAt, result>>

\* ConnectFail followed by another attempt
ConnectFailRetry ==
    /\ pc = "connect"
    /\ ops.connect < 3
    /\ ops' = Count("connect")
    /\ lastOp' = "connect"
    /\ UNCHANGED <<pc, inp, iso, msg, msg_with_len, sock, tstate, wire, peer, rpos,
                   raw_len, length, response, iso_response, failedAt, result>>

\* line 33 raising
ConnectFail ==
    /\ pc = "connect"
    /\ \E e \in {"Connection refused", "timed out", "Name or service not known"} :
          Fail("connect", e)
    /\ ops' = Count("connect")
    /\ lastOp' = "connect"
    /\ UNCHANGED <<inp, iso, msg, msg_with_len, sock, tstate, wire, peer, rpos,
                   raw_len, length, response, iso_response>>

\* line 35
Pack ==
    /\ pc = "pack"
    /\ LET r == PackFrame(msg) IN
       IF r.ok
       THEN /\ msg_with_len' = r.bytes
            /\ pc' = "send"
            /\ UNCHANGED <<failedAt, result>>
       ELSE /\ Fail("pack", r.err)
            /\ UNCHANGED msg_with_len
    /\ lastOp' = "none"
    /\ UNCHANGED <<inp, iso, msg, sock, tstate, ops, wire, peer, rpos,
                   raw_len, length, response, iso_response>>

\* line 36 returning: sendall has written everything
SendOk ==
    /\ pc = "send"
    /\ wire' = msg_with_len
    /\ tstate' = "Sent"
    /\ pc' = "recv_hdr"
    /\ ops' = Count("sendall")
    /\ lastOp' = "sendall"
    /\ UNCHANGED <<inp, iso, msg, msg_with_len, sock, peer, rpos,
                   raw_len, length, response, iso_response, failedAt, result>>

\* line 36 raising after a partial write
SendFail ==
    /\ pc = "send"
    /\ \E n \in {0, 1, 2, 3} \cap 0..(Len(msg_with_len) - 1) :
          wire' = Prefix(msg_with_len, n)
    /\ \E e \in {"Broken pipe", "timed out"} : Fail("send", e)
    /\ ops' = Count("sendall")
    /\ lastOp' = "sendall"
    /\ UNCHANGED <<inp, iso, msg, msg_with_len, sock, tstate, peer, rpos,
                   raw_len, length, response, iso_response>>

Avail == Len(peer.bytes) - rpos

\* line 38: recv(2) is issued and blocks
BeginRecvHeader ==
    /\ pc = "recv_hdr"
    /\ pc' = "wait_hdr"
    /\ tstate' = "AwaitingLength"
    /\ ops' = Count("recv_hdr")
    /\ lastOp' = "recv"
    /\ UNCHANGED <<inp, iso, msg, msg_with_len, sock, wire, peer, rpos,
                   raw_len, length, response, iso_response, failedAt, result>>

\* lines 38-43: recv(2) returns what has arrived, 1 or 2 bytes
RecvHeaderData ==
    /\ pc = "wait_hdr"
    /\ Avail > 0
    /\ \E k \in ChunkSizes(2, Avail) :
          /\ raw_len' = Slice(peer.bytes, rpos + 1, k)
          /\ rpos' = rpos + k
          /\ IF k < 2
             THEN /\ Fail("recv_hdr", "Incomplete 2-byte header received")
                  /\ UNCHANGED <<length, tstate>>
             ELSE /\ length' = UnpackLen(raw_len')
                  /\ tstate' = "AwaitingBody"
                  /\ pc' = "body"
                  /\ UNCHANGED <<failedAt, result>>
    /\ lastOp' = "none"
    /\ UNCHANGED <<inp, iso, msg, msg_with_len, sock, ops, wire, peer,
                   response, iso_response>>

\* lines 38-40: the host has closed, recv(2) returns b''
RecvHeaderEof ==
    /\ pc = "wait_hdr"
    /\ Avail = 0
    /\ peer.end = "close"
    /\ raw_len' = << >>
    /\ Fail("recv_hdr", "Incomplete 2-byte header received")
    /\ lastOp' = "none"
    /\ UNCHANGED <<inp, iso, msg, msg_with_len, sock, tstate, ops, wire, peer, rpos,
                   length, response, iso_response>>

\* line 38 raising: timeout or reset
RecvHeaderError ==
    /\ pc = "wait_hdr"
    /\ Avail = 0
    /\ peer.end # "close"
    /\ Fail("recv_hdr", IF peer.end = "hang" THEN "timed out" ELSE "Connection reset by peer")
    /\ lastOp' = "none"
    /\ UNCHANGED <<inp, iso, msg, msg_with_len, sock, tstate, ops, wire, peer, rpos,
                   raw_len, length, response, iso_response>>

\* RecvBodyData asking for a whole buffer, recv(4096), whatever is still missing
RecvBodyDataBuffered ==
    /\ pc = "body"
    /\ Len(response) < length
    /\ Avail > 0
    /\ \E k \in ChunkSizes(4096, Avail) :
          /\ response' = response \o Slice(peer.bytes, rpos + 1, k)
          /\ rpos' = rpos + k
    /\ lastOp' = "recv"
    /\ UNCHANGED <<pc, inp, iso, msg, msg_with_len, sock, tstate, ops, wire, peer,
                   raw_len, length, iso_response, failedAt, result>>

\* lines 44-48, one iteration in which recv returns a chunk
RecvBodyData ==
    /\ pc = "body"
    /\ Len(response) < length
    /\ Avail > 0
    /\ \E k \in ChunkSizes(length - Len(response), Avail) :
          /\ response' = response \o Slice(peer.bytes, rpos + 1, k)
          /\ rpos' = rpos + k
    /\ lastOp' = "recv"
    /\ UNCHANGED <<pc, inp, iso, msg, msg_with_len, sock, tstate, ops, wire, peer,
                   raw_len, length, iso_response, failedAt, result>>

\* RecvBodyEof leaving the loop instead of raising
RecvBodyEofBreak ==
    /\ pc = "body"
    /\ Len(response) < length
    /\ Avail = 0
    /\ peer.end = "close"
    /\ sock' = "closed"
    /\ tstate' = "Closed"
    /\ pc' = "decode"
    /\ ops' = Count("close")
    /\ lastOp' = "close"
    /\ UNCHANGED <<inp, iso, msg, msg_with_len, wire, peer, rpos,
                   raw_len, length, response, iso_response, failedAt, result>>

\* RecvBodyEof going round the loop again on an empty chunk instead of raising
RecvBodyEofSpin ==
    /\ pc = "body"
    /\ Len(response) < length
    /\ Avail = 0
    /\ peer.end = "close"
    /\ lastOp' = "recv"
    /\ UNCHANGED <<pc, inp, iso, msg, msg_with_len, sock, tstate, ops, wire, peer,
                   rpos, raw_len, length, response, iso_response, failedAt, result>>

\* lines 45-47: recv returns b''
RecvBodyEof ==
    /\ pc = "body"
    /\ Len(response) < length
    /\ Avail = 0
    /\ peer.end = "close"
    /\ Fail("body", "Socket connection broken")
    /\ lastOp' = "recv"
    /\ UNCHANGED <<inp, iso, msg, msg_with_len, sock, tstate, ops, wire, peer, rpos,
                   raw_len, length, response, iso_response>>

\* line 45 raising: timeout or reset
RecvBodyError ==
    /\ pc = "body"
    /\ Len(response) < length
    /\ Avail = 0
    /\ peer.end # "close"
    /\ Fail("body", IF peer.end = "hang" THEN "timed out" ELSE "Connection reset by peer")
    /\ lastOp' = "recv"
    /\ UNCHANGED <<inp, iso, msg, msg_with_len, sock, tstate, ops, wire, peer, rpos,
                   raw_len, length, response, iso_response>>

\* lines 44, 49: the loop condition is false, the socket is closed
Close ==
    /\ pc = "body"
    /\ ~(Len(response) < length)
    /\ sock' = "closed"
    /\ tstate' = "Closed"
    /\ pc' = "decode"
    /\ ops' = Count("close")
    /\ lastOp' = "close"
    /\ UNCHANGED <<inp, iso, msg, msg_with_len, wire, peer, rpos,
                   raw_len, length, response, iso_response, failedAt, result>>

\* DecodeResponse taking the first two bytes of the body for a length header
DecodeResponseSkipHeader ==
    /\ pc = "decode"
    /\ LET r == Decode(Slice(response, 3, Len(response) - 2)) IN
       IF r.ok
       THEN /\ iso_response' = [mti |-> r.mti, fields |-> r.fields]
            /\ pc' = "return"
            /\ UNCHANGED <<failedAt, result>>
       ELSE /\ Fail("decode", r.err)
            /\ UNCHANGED iso_response
    /\ lastOp' = "none"
    /\ UNCHANGED <<inp, iso, msg, msg_with_len, sock, tstate, ops, wire, peer, rpos,
                   raw_len, length, response>>

\* lines 51-52
DecodeResponse ==
    /\ pc = "decode"
    /\ LET r == Decode(response) IN
       IF r.ok
       THEN /\ iso_response' = [mti |-> r.mti, fields |-> r.fields]
            /\ pc' = "return"
            /\ UNCHANGED <<failedAt, result>>
       ELSE /\ Fail("decode", r.err)
            /\ UNCHANGED iso_response
    /\ lastOp' = "none"
    /\ UNCHANGED <<inp, iso, msg, msg_with_len, sock, tstate, ops, wire, peer, rpos,
                   raw_len, length, response>>

\* get_bit of a bit the message does not carry: the imported class either raises
\* or returns None; `unset` says which
GetBit(m, n, unset) ==
    IF n \in DOMAIN m.fields THEN [ok |-> TRUE, val |-> m.fields[n]]
    ELSE IF unset = "none" THEN [ok |-> TRUE, val |-> None]
    ELSE [ok |-> FALSE, err |-> "BitNotSet"]

\* MapResult approving everything but a plain decline
MapResultNot05(m, unset) ==
    LET f39 == GetBit(m, 39, unset)
        f4 == GetBit(m, 4, unset)
        f12 == GetBit(m, 12, unset)
    IN IF f39.ok /\ f4.ok /\ f12.ok
       THEN [ok |-> TRUE,
             val |-> [kind |-> "ok",
                      approved |-> (f39.val # Str05),
                      field39 |-> f39.val,
                      mti |-> m.mti,
                      amount_received |-> f4.val,
                      transaction_time |-> f12.val]]
       ELSE [ok |-> FALSE, err |-> "BitNotSet"]

\* MapResult approving only when the response echoes the amount of the request
MapResultChecked(m, unset) ==
    LET f39 == GetBit(m, 39, unset)
        f4 == GetBit(m, 4, unset)
        f12 == GetBit(m, 12, unset)
    IN IF f39.ok /\ f4.ok /\ f12.ok
       THEN [ok |-> TRUE,
             val |-> [kind |-> "ok",
                      approved |-> (f39.val = Str00 /\ f4.val = iso.fields[4]),
                      field39 |-> f39.val,
                      mti |-> m.mti,
                      amount_received |-> f4.val,
                      transaction_time |-> f12.val]]
       ELSE [ok |-> FALSE, err |-> "BitNotSet"]

\* lines 54-60
MapResult(m, unset) ==
    LET f39 == GetBit(m, 39, unset)
        f4 == GetBit(m, 4, unset)
        f12 == GetBit(m, 12, unset)
    IN IF f39.ok /\ f4.ok /\ f12.ok
       THEN [ok |-> TRUE,
             val |-> [kind |-> "ok",
                      approved |-> (f39.val = Str00),
                      field39 |-> f39.val,
                      mti |-> m.mti,
                      amount_received |-> f4.val,
                      transaction_time |-> f12.val]]
       ELSE [ok |-> FALSE, err |-> "BitNotSet"]

Return ==
    /\ pc = "return"
    /\ \E unset \in {"raise", "none"} :
          LET r == MapResult(iso_response, unset) IN
          IF r.ok
          THEN /\ result' = r.val
               /\ pc' = "done"
               /\ UNCHANGED failedAt
          ELSE Fail("return", r.err)
    /\ lastOp' = "none"
    /\ UNCHANGED <<inp, iso, msg, msg_with_len, sock, tstate, ops, wire, peer, rpos,
                   raw_len, length, response, iso_response>>

Transport ==
    \/ CreateSocket
    \/ CreateSocketFail
    \/ ConnectOk
    \/ ConnectFail
    \/ Pack
    \/ SendOk
    \/ SendFail
    \/ BeginRecvHeader
    \/ RecvHeaderData
    \/ RecvHeaderEof
    \/ RecvHeaderError
    \/ RecvBodyData
    \/ RecvBodyEof
    \/ RecvBodyError
    \/ Close
    \/ DecodeResponse
    \/ Return

Next ==
    \/ Build
    \/ EncodeRequest
    \/ Transport

Spec == Init /\ [][Next]_vars

\* the same call when every step that can be taken is eventually taken: the
\* interpreter goes on, and a blocking socket call returns or raises within the
\* timeout of line 32.  Progress is any step of the call, the actions of Next.
Progress ==
    \/ Build \/ EncodeRequest
    \/ CreateSocket \/ CreateSocketFail
    \/ ConnectFail \/ ConnectOk
    \/ Pack
    \/ SendOk \/ SendFail
    \/ BeginRecvHeader
    \/ RecvHeaderData \/ RecvHeaderEof \/ RecvHeaderError
    \/ RecvBodyData \/ RecvBodyEof \/ RecvBodyError
    \/ Close
    \/ DecodeResponse
    \/ Return

SpecLive == Init /\ [][Next]_vars /\ WF_vars(Progress)

----------------------------------------------------------------------------
(* Concurrent calls.  Everything send_iso_authorization works on is local to *)
(* one call (lines 12-60 assign local names only; the module-level names of  *)
(* lines 1-8 are imports, never assigned by a call), so the state of a call  *)
(* is a record of the variables above and a step of the call is a function   *)
(* of that record.                                                           *)

SFail(s, at, e) == [s EXCEPT !.pc = "done", !.failedAt = at, !.result = Handler(e)]
SCount(s, op) == [s EXCEPT !.ops[op] = @ + 1]
SAvail(s) == Len(s.peer.bytes) - s.rpos

\* lines 12-29
StepRequest(s) ==
    IF s.pc = "build"
    THEN LET amt == Format012(s.inp.amount_cents)
             t == [s EXCEPT !.lastOp = "none"]
         IN IF amt.ok
            THEN { [t EXCEPT !.iso = BuildRequest(s.inp, amt.str), !.pc = "encode"] }
            ELSE { SFail([t EXCEPT !.iso = SetBit(SetBit(SetMti(NewIso, Str0100),
                                                         2, s.inp.pan), 3, Str000000)],
                         "build", amt.err) }
    ELSE LET r == Encode(s.iso)
             t == [s EXCEPT !.lastOp = "none"]
         IN IF r.ok THEN { [t EXCEPT !.msg = r.bytes, !.pc = "socket"] }
            ELSE { SFail(t, "encode", r.err) }

\* lines 31-36; scripts is what the host may deliver in answer to s.msg
StepConnectSend(s, scripts) ==
    CASE s.pc = "socket" ->
           LET t == [SCount(s, "socket") EXCEPT !.lastOp = "socket"] IN
           { [t EXCEPT !.sock = "open", !.pc = "connect"], SFail(t, "socket", "OSError") }
      [] s.pc = "connect" ->
           LET t == [SCount(s, "connect") EXCEPT !.lastOp = "connect"] IN
           { [t EXCEPT !.peer = p, !.tstate = "Connected", !.pc = "pack"] :
               p \in scripts }
           \cup { SFail(t, "connect", e) :
                    e \in {"Connection refused", "timed out", "Name or service not known"} }
      [] s.pc = "pack" ->
           LET r == PackFrame(s.msg)
               t == [s EXCEPT !.lastOp = "none"]
           IN IF r.ok THEN { [t EXCEPT !.msg_with_len = r.bytes, !.pc = "send"] }
              ELSE { SFail(t, "pack", r.err) }
      [] s.pc = "send" ->
           LET t == [SCount(s, "sendall") EXCEPT !.lastOp = "sendall"] IN
           { [t EXCEPT !.wire = s.msg_with_len, !.tstate = "Sent", !.pc = "recv_hdr"] }
           \cup { SFail([t EXCEPT !.wire = Prefix(s.msg_with_len, n)], "send", e) :
                    n \in {0, 1, 2, 3} \cap 0..(Len(s.msg_with_len) - 1),
                    e \in {"Broken pipe", "timed out"} }

\* lines 38-43
StepHeader(s) ==
    IF s.pc = "recv_hdr"
    THEN { [SCount(s, "recv_hdr") EXCEPT !.pc = "wait_hdr", !.tstate = "AwaitingLength",
                                         !.lastOp = "recv"] }
    ELSE LET t == [s EXCEPT !.lastOp = "none"] IN
         IF SAvail(s) > 0
         THEN { LET h == Slice(s.peer.bytes, s.rpos + 1, k)
                    u == [t EXCEPT !.raw_len = h, !.rpos = s.rpos + k]
                IN IF k < 2
                   THEN SFail(u, "recv_hdr", "Incomplete 2-byte header received")
                   ELSE [u EXCEPT !.length = UnpackLen(h), !.tstate = "AwaitingBody",
                                  !.pc = "body"]
                : k \in ChunkSizes(2, SAvail(s)) }
         ELSE IF s.peer.end = "close"
         THEN { SFail([t EXCEPT !.raw_len = << >>], "recv_hdr",
                      "Incomplete 2-byte header received") }
         ELSE { SFail(t, "recv_hdr", IF s.peer.end = "hang" THEN "timed out"
                                     ELSE "Connection reset by peer") }

\* lines 44-49
StepBody(s) ==
    IF Len(s.response) < s.length
    THEN LET t == [s EXCEPT !.lastOp = "recv"] IN
         IF SAvail(s) > 0
         THEN { [t EXCEPT !.response = s.response \o Slice(s.peer.bytes, s.rpos + 1, k),
                          !.rpos = s.rpos + k]
                : k \in ChunkSizes(s.length - Len(s.response), SAvail(s)) }
         ELSE IF s.peer.end = "close"
         THEN { SFail(t, "body", "Socket connection broken") }
         ELSE { SFail(t, "body", IF s.peer.end = "hang" THEN "timed out"
                                 ELSE "Connection reset by peer") }
    ELSE { [SCount(s, "close") EXCEPT !.sock = "closed", !.tstate = "Closed",
                                      !.pc = "decode", !.lastOp = "close"] }

\* lines 51-60
StepResult(s) ==
    LET t == [s EXCEPT !.lastOp = "none"] IN
    IF s.pc = "decode"
    THEN LET r == Decode(s.response) IN
         IF r.ok
         THEN { [t EXCEPT !.iso_response = [mti |-> r.mti, fields |-> r.fields],
                          !.pc = "return"] }
         ELSE { SFail(t, "decode", r.err) }
    ELSE { LET r == MapResult(s.iso_response, unset) IN
           IF r.ok THEN [t EXCEPT !.result = r.val, !.pc = "done"]
           ELSE SFail(t, "return", r.err)
           : unset \in {"raise", "none"} }

\* the states one step of a call leads to from s
CallSucc(s, scripts) ==
    CASE s.pc \in {"build", "encode"} -> StepRequest(s)
      [] s.pc \in {"socket", "connect", "pack", "send"} -> StepConnectSend(s, scripts)
      [] s.pc \in {"recv_hdr", "wait_hdr"} -> StepHeader(s)
      [] s.pc = "body" -> StepBody(s)
      [] s.pc \in {"decode", "return"} -> StepResult(s)
      [] OTHER -> {}

\* the variables of one call, as a record
Rec ==
    [pc |-> pc, inp |-> inp, iso |-> iso, msg |-> msg, msg_with_len |-> msg_with_len,
     sock |-> sock, tstate |-> tstate, lastOp |-> lastOp, ops |-> ops, wire |-> wire,
     peer |-> peer, rpos |-> rpos, raw_len |-> raw_len, length |-> length,
     response |-> response, iso_response |-> iso_response, failedAt |-> failedAt,
     result |-> result]

\* every step of Next is a step by CallSucc
StepsAgree == [][Rec' \in CallSucc(Rec, PeerScripts(msg))]_vars

Calls == {1, 2}

\* two different requests
ConcInputs ==
    [c \in Calls |->
       [pan |-> Pan16, expiry |-> Expiry2512, cvv |-> Cvv123,
        amount_cents |-> IF c = 1 THEN IntAmount(FALSE, <<1, 0, 0, 0>>)
                         ELSE IntAmount(FALSE, <<0>>),
        now |-> Now1]]

\* what a call's own host may deliver: an approval or a decline echoing the
\* amount, whole, cut one byte short, or reset after the header
ConcScripts(m) ==
    IF ~(Decode(m).ok /\ 4 \in DOMAIN Decode(m).fields) THEN {}
    ELSE
    LET approve == HostFrame(Encode(Reply(Str0110, Str00, Decode(m).fields[4], TRUE)).bytes)
        decline == HostFrame(Encode(Reply(Str0110, Str05, Decode(m).fields[4], TRUE)).bytes)
    IN { [bytes |-> approve, end |-> "close"],
         [bytes |-> decline \o <<7, 7>>, end |-> "close"],
         [bytes |-> Prefix(approve, Len(approve) - 1), end |-> "close"],
         [bytes |-> Prefix(decline, 2), end |-> "reset"] }

\* a call that has not started
NewCall(i) ==
    [pc |-> "build", inp |-> i, iso |-> NewIso, msg |-> << >>, msg_with_len |-> << >>,
     sock |-> "none", tstate |-> "Idle", lastOp |-> "none",
     ops |-> [socket |-> 0, connect |-> 0, sendall |-> 0, recv_hdr |-> 0, close |-> 0],
     wire |-> << >>, peer |-> [bytes |-> << >>, end |-> "close"], rpos |-> 0,
     raw_len |-> << >>, length |-> 0, response |-> << >>, iso_response |-> NewIso,
     failedAt |-> "none", result |-> [kind |-> "pending"]]

\* in the specification of concurrent calls every variable is a function of the
\* call, and Local(c) is the state of call c
Local(c) ==
    [pc |-> pc[c], inp |-> inp[c], iso |-> iso[c], msg |-> msg[c],
     msg_with_len |-> msg_with_len[c], sock |-> sock[c], tstate |-> tstate[c],
     lastOp |-> lastOp[c], ops |-> ops[c], wire |-> wire[c], peer |-> peer[c],
     rpos |-> rpos[c], raw_len |-> raw_len[c], length |-> length[c],
     response |-> response[c], iso_response |-> iso_response[c],
     failedAt |-> failedAt[c], result |-> result[c]]

InitConc ==
    /\ pc = [c \in Calls |-> NewCall(ConcInputs[c]).pc]
    /\ inp = ConcInputs
    /\ iso = [c \in Calls |-> NewIso]
    /\ msg = [c \in Calls |-> << >>]
    /\ msg_with_len = [c \in Calls |-> << >>]
    /\ sock = [c \in Calls |-> "none"]
    /\ tstate = [c \in Calls |-> "Idle"]
    /\ lastOp = [c \in Calls |-> "none"]
    /\ ops = [c \in Calls |-> NewCall(ConcInputs[c]).ops]
    /\ wire = [c \in Calls |-> << >>]
    /\ peer = [c \in Calls |-> NewCall(ConcInputs[c]).peer]
    /\ rpos = [c \in Calls |-> 0]
    /\ raw_len = [c \in Calls |-> << >>]
    /\ length = [c \in Calls |-> 0]
    /\ response = [c \in Calls |-> << >>]
    /\ iso_response = [c \in Calls |-> NewIso]
    /\ failedAt = [c \in Calls |-> "none"]
    /\ result = [c \in Calls |-> [kind |-> "pending"]]

\* CallStep with the request object kept in one module-level name: what a call
\* stores in it is what every call finds there
CallStepSharedRequest(c) ==
    \E t \in CallSucc(Local(c), ConcScripts(msg[c])) :
       /\ pc' = [pc EXCEPT ![c] = t.pc]
       /\ inp' = [inp EXCEPT ![c] = t.inp]
       /\ iso' = [d \in Calls |-> t.iso]
       /\ msg' = [msg EXCEPT ![c] = t.msg]
       /\ msg_with_len' = [msg_with_len EXCEPT ![c] = t.msg_with_len]
       /\ sock' = [sock EXCEPT ![c] = t.sock]
       /\ tstate' = [tstate EXCEPT ![c] = t.tstate]
       /\ lastOp' = [lastOp EXCEPT ![c] = t.lastOp]
       /\ ops' = [ops EXCEPT ![c] = t.ops]
       /\ wire' = [wire EXCEPT ![c] = t.wire]
       /\ peer' = [peer EXCEPT ![c] = t.peer]
       /\ rpos' = [rpos EXCEPT ![c] = t.rpos]
       /\ raw_len' = [raw_len EXCEPT ![c] = t.raw_len]
       /\ length' = [length EXCEPT ![c] = t.length]
       /\ response' = [response EXCEPT ![c] = t.response]
       /\ iso_response' = [iso_response EXCEPT ![c] = t.iso_response]
       /\ failedAt' = [failedAt EXCEPT ![c] = t.failedAt]
       /\ result' = [result EXCEPT ![c] = t.result]

\* call c takes one step; its names are its own, so no other call's change
CallStep(c) ==
    \E t \in CallSucc(Local(c), ConcScripts(msg[c])) :
       /\ pc' = [pc EXCEPT ![c] = t.pc]
       /\ inp' = [inp EXCEPT ![c] = t.inp]
       /\ iso' = [iso EXCEPT ![c] = t.iso]
       /\ msg' = [msg EXCEPT ![c] = t.msg]
       /\ msg_with_len' = [msg_with_len EXCEPT ![c] = t.msg_with_len]
       /\ sock' = [sock EXCEPT ![c] = t.sock]
       /\ tstate' = [tstate EXCEPT ![c] = t.tstate]
       /\ lastOp' = [lastOp EXCEPT ![c] = t.lastOp]
       /\ ops' = [ops EXCEPT ![c] = t.ops]
       /\ wire' = [wire EXCEPT ![c] = t.wire]
       /\ peer' = [peer EXCEPT ![c] = t.peer]
       /\ rpos' = [rpos EXCEPT ![c] = t.rpos]
       /\ raw_len' = [raw_len EXCEPT ![c] = t.raw_len]
       /\ length' = [length EXCEPT ![c] = t.length]
       /\ response' = [response EXCEPT ![c] = t.response]
       /\ iso_response' = [iso_response EXCEPT ![c] = t.iso_response]
       /\ failedAt' = [failedAt EXCEPT ![c] = t.failedAt]
       /\ result' = [result EXCEPT ![c] = t.result]

NextConc == \E c \in Calls : CallStep(c)

SpecConc == InitConc /\ [][NextConc]_vars

RECURSIVE ReachFrom(_, _)
\* the states a call running alone can be in, starting from `frontier`
ReachFrom(seen, frontier) ==
    IF frontier = {} THEN seen
    ELSE LET new == UNION { CallSucc(s, ConcScripts(s.msg)) : s \in frontier } \ seen
         IN ReachFrom(seen \cup new, new)

SoloStates(i) == ReachFrom({NewCall(i)}, {NewCall(i)})

----------------------------------------------------------------------------
(* The framing of line 35 on its own: get_network_message may have returned *)
(* any bytes, and the exchange runs from line 31 on                         *)

RawMessages ==
    { << >>, Rep(65, 1), Rep(65, 256), Rep(65, 300),
      Rep(48, MaxFrame), Rep(48, MaxFrame + 1), Rep(48, MaxFrame + 2) }

InitFrame ==
    /\ pc = "socket"
    /\ inp = [pan |-> Pan16, expiry |-> Expiry2512, cvv |-> Cvv123,
              amount_cents |-> IntAmount(FALSE, <<1, 0, 0, 0>>), now |-> Now1]
    /\ iso = BuildRequest(inp, Format012(inp.amount_cents).str)
    /\ msg \in RawMessages
    /\ msg_with_len = << >>
    /\ sock = "none"
    /\ tstate = "Idle"
    /\ lastOp = "none"
    /\ ops = [socket |-> 0, connect |-> 0, sendall |-> 0, recv_hdr |-> 0, close |-> 0]
    /\ wire = << >>
    /\ peer = [bytes |-> << >>, end |-> "close"]
    /\ rpos = 0
    /\ raw_len = << >>
    /\ length = 0
    /\ response = << >>
    /\ iso_response = NewIso
    /\ failedAt = "none"
    /\ result = [kind |-> "pending"]

NextFrame == Transport

SpecFrame == InitFrame /\ [][NextFrame]_vars

----------------------------------------------------------------------------
(* The codec on its own: a message is encoded as on line 29 and the bytes    *)
(* are decoded as on lines 51-52                                             *)

MaxFields == 2

CodecMtis == {Str0100, Str0110, Str0210}

\* the field sets tried: the small ones, the request's and the whole dictionary
CodecFieldSets ==
    {S \in SUBSET DictFields : Cardinality(S) <= MaxFields}
       \cup {DictFields, {2, 3, 4, 7, 11, 14, 18, 22, 25, 35, 41, 49}}

\* value number v of field n: v = 1, 2 full width (an LLVAR of 16 characters and
\* of the greatest length), v = 3 full width with an empty LLVAR, v = 4 one
\* character short of a fixed width; an alphanumeric value of v = 1 is spaces
CodecValue(n, v) ==
    LET fs == FieldSpec(n)
        c == IF fs.kind = "numeric" THEN Digit((n + v) % 10)
             ELSE IF v = 1 THEN 32 ELSE 65 + ((n + v) % 26)
        l == IF fs.rule = "fixed" THEN (IF v = 4 THEN fs.len - 1 ELSE fs.len)
             ELSE CASE v = 1 -> 16 [] v = 2 -> fs.len [] v = 3 -> 0 [] v = 4 -> 1
    IN Rep(c, l)

CodecMessages ==
    { [mti |-> t, fields |-> [n \in S |-> CodecValue(n, v)]] :
        t \in CodecMtis, S \in CodecFieldSets, v \in 1..4 }

InitCodec ==
    /\ pc = "encode"
    /\ inp = [pan |-> Pan16, expiry |-> Expiry2512, cvv |-> Cvv123,
              amount_cents |-> IntAmount(FALSE, <<1, 0, 0, 0>>), now |-> Now1]
    /\ iso \in CodecMessages
    /\ msg = << >>
    /\ msg_with_len = << >>
    /\ sock = "none"
    /\ tstate = "Idle"
    /\ lastOp = "none"
    /\ ops = [socket |-> 0, connect |-> 0, sendall |-> 0, recv_hdr |-> 0, close |-> 0]
    /\ wire = << >>
    /\ peer = [bytes |-> << >>, end |-> "close"]
    /\ rpos = 0
    /\ raw_len = << >>
    /\ length = 0
    /\ response = << >>
    /\ iso_response = NewIso
    /\ failedAt = "none"
    /\ result = [kind |-> "pending"]

\* the bytes of line 29 become the bytes given to line 52
Loopback ==
    /\ pc = "socket"
    /\ response' = msg
    /\ length' = Len(msg)
    /\ pc' = "decode"
    /\ lastOp' = "none"
    /\ UNCHANGED <<inp, iso, msg, msg_with_len, sock, tstate, ops, wire, peer, rpos,
                   raw_len, iso_response, failedAt, result>>

NextCodec ==
    \/ EncodeRequest
    \/ Loopback
    \/ DecodeResponse

SpecCodec == InitCodec /\ [][NextCodec]_vars

----------------------------------------------------------------------------
(* The payout functions of src/utils/crypto_utils.py.  They share nothing   *)
(* with the transceiver; of the variables they use pc (position), inp (the  *)
(* arguments), ops (how often each kind of operation was started), wire     *)
(* (the broadcasts, with what the node answered), failedAt and result.      *)

\* a parameter: Python's None, the empty string, or a usable value
PyNone == "<None>"
ParamValues == {PyNone, "", "set"}
Truthy(v) == v \notin {PyNone, ""}

\* an amount: None, '', a numeric zero, a positive number, the string '0', or a
\* string that is no number
AmountValues == {"none", "empty", "zero", "pos", "strzero", "bad"}
TruthyAmount(a) == a \in {"pos", "strzero", "bad"}

\* Decimal(str(amount)), lines 52, 87 and 115
DecimalOf(a) ==
    CASE a \in {"zero", "strzero"} -> [ok |-> TRUE, val |-> "zero"]
      [] a = "pos" -> [ok |-> TRUE, val |-> "pos"]
      [] OTHER -> [ok |-> FALSE, err |-> "InvalidOperation"]

NetERC20 == <<69, 82, 67, 50, 48>>
NetTRC20 == <<84, 82, 67, 50, 48>>
\* "ERC20", "erc20", "TRC20", "Trc20", "BTC", "erc2" and ""
Networks ==
    { NetERC20, <<101, 114, 99, 50, 48>>, NetTRC20, <<84, 114, 99, 50, 48>>,
      <<66, 84, 67>>, <<101, 114, 99, 50>>, << >> }

\* str.upper(), line 114
Upper(s) == [i \in 1..Len(s) |-> IF s[i] >= 97 /\ s[i] <= 122 THEN s[i] - 32 ELSE s[i]]

\* a direct call of send_erc20_payout or send_trc20_payout, or a call of
\* process_crypto_payout, whose key, contract and URL come from os.getenv
PayoutInputs ==
    [entry : {"erc20"}, private_key : ParamValues, to_address : ParamValues,
     amount : AmountValues, contract_address : ParamValues,
     infura_url : ParamValues, network : {NetERC20}]
    \cup
    [entry : {"trc20"}, private_key : ParamValues, to_address : ParamValues,
     amount : AmountValues, contract_address : ParamValues,
     infura_url : {PyNone}, network : {NetTRC20}]
    \cup
    [entry : {"process"}, private_key : {PyNone, "set"}, to_address : ParamValues,
     amount : AmountValues, contract_address : {PyNone, "set"},
     infura_url : {PyNone, "set"}, network : Networks]

\* the amount as the payout function gets it: converted on line 115, or as given
PayoutAmount ==
    IF inp.entry = "process" THEN DecimalOf(inp.amount).val ELSE inp.amount

\* all([...]) of lines 40 and 75
ErcParamsOk ==
    /\ Truthy(inp.private_key) /\ Truthy(inp.to_address) /\ TruthyAmount(PayoutAmount)
    /\ Truthy(inp.contract_address) /\ Truthy(inp.infura_url)
TrcParamsOk ==
    /\ Truthy(inp.private_key) /\ Truthy(inp.to_address) /\ TruthyAmount(PayoutAmount)
    /\ Truthy(inp.contract_address)

notPayout == <<inp, iso, msg, msg_with_len, sock, tstate, peer, rpos, raw_len,
               length, response, iso_response>>

InitPayout ==
    /\ pc = "call"
    /\ inp \in PayoutInputs
    /\ iso = NewIso
    /\ msg = << >>
    /\ msg_with_len = << >>
    /\ sock = "none"
    /\ tstate = "Idle"
    /\ lastOp = "none"
    /\ ops = [erc20 |-> 0, trc20 |-> 0, node |-> 0, sign |-> 0, log_error |-> 0]
    /\ wire = << >>
    /\ peer = [bytes |-> << >>, end |-> "close"]
    /\ rpos = 0
    /\ raw_len = << >>
    /\ length = 0
    /\ response = << >>
    /\ iso_response = NewIso
    /\ failedAt = "none"
    /\ result = [kind |-> "pending"]

\* an exception raised outside any try block leaves the function at once
RaiseOut(at, e) ==
    /\ pc' = "done"
    /\ failedAt' = at
    /\ result' = [kind |-> "raised", error |-> e]

\* an exception raised inside the try block goes to its except clause
RaiseIn(at, e, handler) ==
    /\ pc' = handler
    /\ failedAt' = at
    /\ result' = [kind |-> "raising", error |-> e]

\* the caller enters one of the three functions
PayoutCall ==
    /\ pc = "call"
    /\ pc' = CASE inp.entry = "process" -> "process"
               [] inp.entry = "erc20" -> "erc_check"
               [] inp.entry = "trc20" -> "trc_check"
    /\ ops' = IF inp.entry = "process" THEN ops ELSE Count(inp.entry)
    /\ lastOp' = "call"
    /\ UNCHANGED <<wire, failedAt, result>>
    /\ UNCHANGED notPayout

\* process_crypto_payout, lines 114-115
ProcessNormalize ==
    /\ pc = "process"
    /\ IF DecimalOf(inp.amount).ok
       THEN /\ pc' = "dispatch"
            /\ UNCHANGED <<failedAt, result>>
       ELSE RaiseOut("process", DecimalOf(inp.amount).err)
    /\ lastOp' = "none"
    /\ UNCHANGED <<ops, wire>>
    /\ UNCHANGED notPayout

\* ProcessDispatch treating every network but TRC20 as ERC20
ProcessDispatchDefaultErc ==
    /\ pc = "dispatch"
    /\ IF Upper(inp.network) = NetTRC20
       THEN pc' = "trc_check" /\ ops' = Count("trc20")
       ELSE pc' = "erc_check" /\ ops' = Count("erc20")
    /\ lastOp' = "call"
    /\ UNCHANGED <<wire, failedAt, result>>
    /\ UNCHANGED notPayout

\* process_crypto_payout, lines 117-135
ProcessDispatch ==
    /\ pc = "dispatch"
    /\ CASE Upper(inp.network) = NetERC20 ->
              /\ pc' = "erc_check"
              /\ ops' = Count("erc20")
              /\ lastOp' = "call"
              /\ UNCHANGED <<failedAt, result>>
         [] Upper(inp.network) = NetTRC20 ->
              /\ pc' = "trc_check"
              /\ ops' = Count("trc20")
              /\ lastOp' = "call"
              /\ UNCHANGED <<failedAt, result>>
         [] OTHER ->
              /\ RaiseOut("dispatch", "ValueError")
              /\ lastOp' = "none"
              /\ UNCHANGED ops
    /\ UNCHANGED wire
    /\ UNCHANGED notPayout

\* send_erc20_payout, lines 38-41
ErcCheck ==
    /\ pc = "erc_check"
    /\ IF ErcParamsOk
       THEN /\ pc' = "erc_connect"
            /\ UNCHANGED <<failedAt, result>>
       ELSE RaiseOut("erc_check", "ValueError")
    /\ lastOp' = "none"
    /\ UNCHANGED <<ops, wire>>
    /\ UNCHANGED notPayout

\* lines 44-46: the provider is asked whether the node answers
ErcConnect ==
    /\ pc = "erc_connect"
    /\ \E connected \in BOOLEAN :
          IF connected
          THEN /\ pc' = "erc_prepare"
               /\ UNCHANGED <<failedAt, result>>
          ELSE RaiseIn("erc_connect", "ConnectionError", "erc_except")
    /\ ops' = Count("node")
    /\ lastOp' = "node"
    /\ UNCHANGED wire
    /\ UNCHANGED notPayout

\* lines 48-49: the account of the key and the contract object; no request
ErcPrepare ==
    /\ pc = "erc_prepare"
    /\ \E ok \in BOOLEAN :
          IF ok
          THEN /\ pc' = "erc_decimals"
               /\ UNCHANGED <<failedAt, result>>
          ELSE RaiseIn("erc_prepare", "ValueError", "erc_except")
    /\ lastOp' = "none"
    /\ UNCHANGED <<ops, wire>>
    /\ UNCHANGED notPayout

\* line 51: the contract call decimals()
ErcDecimals ==
    /\ pc = "erc_decimals"
    /\ \E ok \in BOOLEAN :
          IF ok
          THEN /\ pc' = "erc_amount"
               /\ UNCHANGED <<failedAt, result>>
          ELSE RaiseIn("erc_decimals", "Web3Exception", "erc_except")
    /\ ops' = Count("node")
    /\ lastOp' = "node"
    /\ UNCHANGED wire
    /\ UNCHANGED notPayout

\* line 52
ErcAmount ==
    /\ pc = "erc_amount"
    /\ IF DecimalOf(PayoutAmount).ok
       THEN /\ pc' = "erc_build"
            /\ UNCHANGED <<failedAt, result>>
       ELSE RaiseIn("erc_amount", DecimalOf(PayoutAmount).err, "erc_except")
    /\ lastOp' = "none"
    /\ UNCHANGED <<ops, wire>>
    /\ UNCHANGED notPayout

\* lines 53-62: the nonce, the chain id and the gas price are asked of the node
ErcBuild ==
    /\ pc = "erc_build"
    /\ \E ok \in BOOLEAN :
          IF ok
          THEN /\ pc' = "erc_sign"
               /\ UNCHANGED <<failedAt, result>>
          ELSE RaiseIn("erc_build", "Web3Exception", "erc_except")
    /\ ops' = Count("node")
    /\ lastOp' = "node"
    /\ UNCHANGED wire
    /\ UNCHANGED notPayout

\* line 64
ErcSign ==
    /\ pc = "erc_sign"
    /\ \E ok \in BOOLEAN :
          IF ok
          THEN /\ pc' = "erc_send"
               /\ UNCHANGED <<failedAt, result>>
          ELSE RaiseIn("erc_sign", "TypeError", "erc_except")
    /\ ops' = Count("sign")
    /\ lastOp' = "sign"
    /\ UNCHANGED wire
    /\ UNCHANGED notPayout

\* lines 65-66: the one send_raw_transaction; its hash is returned as hex
ErcSend ==
    /\ pc = "erc_send"
    /\ \E accepted \in BOOLEAN :
          IF accepted
          THEN /\ wire' = Append(wire, [accepted |-> TRUE, txid |-> "0xhash"])
               /\ pc' = "done"
               /\ result' = [kind |-> "returned", value |-> "0xhash"]
               /\ UNCHANGED failedAt
          ELSE /\ wire' = Append(wire, [accepted |-> FALSE, txid |-> PyNone])
               /\ RaiseIn("erc_send", "Web3Exception", "erc_except")
    /\ lastOp' = "broadcast"
    /\ UNCHANGED ops
    /\ UNCHANGED notPayout

\* ErcExcept returning None after logging instead of raising
ErcExceptSwallow ==
    /\ pc = "erc_except"
    /\ ops' = Count("log_error")
    /\ result' = [kind |-> "returned", value |-> PyNone]
    /\ pc' = "done"
    /\ lastOp' = "none"
    /\ UNCHANGED <<wire, failedAt>>
    /\ UNCHANGED notPayout

\* lines 68-70: log, then raise the same exception
ErcExcept ==
    /\ pc = "erc_except"
    /\ ops' = Count("log_error")
    /\ result' = [kind |-> "raised", error |-> result.error]
    /\ pc' = "done"
    /\ lastOp' = "none"
    /\ UNCHANGED <<wire, failedAt>>
    /\ UNCHANGED notPayout

\* send_trc20_payout, lines 73-76
TrcCheck ==
    /\ pc = "trc_check"
    /\ IF TrcParamsOk
       THEN /\ pc' = "trc_client"
            /\ UNCHANGED <<failedAt, result>>
       ELSE RaiseOut("trc_check", "ValueError")
    /\ lastOp' = "none"
    /\ UNCHANGED <<ops, wire>>
    /\ UNCHANGED notPayout

\* lines 79-81: the client, the key from hex, and the contract fetched from the node
TrcClient ==
    /\ pc = "trc_client"
    /\ \E e \in {"ok", "ValueError", "TronError"} :
          IF e = "ok"
          THEN /\ pc' = "trc_decimals"
               /\ ops' = Count("node")
               /\ lastOp' = "node"
               /\ UNCHANGED <<failedAt, result>>
          ELSE /\ RaiseIn("trc_client", e, "trc_except")
               /\ ops' = IF e = "ValueError" THEN ops ELSE Count("node")
               /\ lastOp' = IF e = "ValueError" THEN "none" ELSE "node"
    /\ UNCHANGED wire
    /\ UNCHANGED notPayout

\* lines 83-87: the contract call decimals(), then the amount in base units
TrcDecimals ==
    /\ pc = "trc_decimals"
    /\ \E ok \in BOOLEAN :
          IF ~ok THEN RaiseIn("trc_decimals", "TronError", "trc_except")
          ELSE IF ~DecimalOf(PayoutAmount).ok
          THEN RaiseIn("trc_decimals", DecimalOf(PayoutAmount).err, "trc_except")
          ELSE /\ pc' = "trc_build"
               /\ UNCHANGED <<failedAt, result>>
    /\ ops' = Count("node")
    /\ lastOp' = "node"
    /\ UNCHANGED wire
    /\ UNCHANGED notPayout

\* lines 89-94: the transaction is built against the node's latest block
TrcBuild ==
    /\ pc = "trc_build"
    /\ \E ok \in BOOLEAN :
          IF ok
          THEN /\ pc' = "trc_sign"
               /\ UNCHANGED <<failedAt, result>>
          ELSE RaiseIn("trc_build", "TronError", "trc_except")
    /\ ops' = Count("node")
    /\ lastOp' = "node"
    /\ UNCHANGED wire
    /\ UNCHANGED notPayout

\* line 95
TrcSign ==
    /\ pc = "trc_sign"
    /\ \E ok \in BOOLEAN :
          IF ok
          THEN /\ pc' = "trc_broadcast"
               /\ UNCHANGED <<failedAt, result>>
          ELSE RaiseIn("trc_sign", "ValueError", "trc_except")
    /\ ops' = Count("sign")
    /\ lastOp' = "sign"
    /\ UNCHANGED wire
    /\ UNCHANGED notPayout

\* lines 97-104: the one broadcast; it raises, or answers with or without a txid
TrcBroadcast ==
    /\ pc = "trc_broadcast"
    /\ \E answer \in {"raise", PyNone, "", "txid1"} :
          IF answer = "raise"
          THEN /\ wire' = Append(wire, [accepted |-> FALSE, txid |-> PyNone])
               /\ RaiseIn("trc_broadcast", "TronError", "trc_except")
          ELSE IF ~Truthy(answer)
          THEN /\ wire' = Append(wire, [accepted |-> FALSE, txid |-> answer])
               /\ RaiseIn("trc_broadcast", "TronError: TRC20 broadcast failed", "trc_except")
          ELSE /\ wire' = Append(wire, [accepted |-> TRUE, txid |-> answer])
               /\ pc' = "done"
               /\ result' = [kind |-> "returned", value |-> answer]
               /\ UNCHANGED failedAt
    /\ lastOp' = "broadcast"
    /\ UNCHANGED ops
    /\ UNCHANGED notPayout

\* lines 106-108: log, then raise the same exception
TrcExcept ==
    /\ pc = "trc_except"
    /\ ops' = Count("log_error")
    /\ result' = [kind |-> "raised", error |-> result.error]
    /\ pc' = "done"
    /\ lastOp' = "none"
    /\ UNCHANGED <<wire, failedAt>>
    /\ UNCHANGED notPayout

NextPayout ==
    \/ PayoutCall
    \/ ProcessNormalize
    \/ ProcessDispatch
    \/ ErcCheck
    \/ ErcConnect
    \/ ErcPrepare
    \/ ErcDecimals
    \/ ErcAmount
    \/ ErcBuild
    \/ ErcSign
    \/ ErcSend
    \/ ErcExcept
    \/ TrcCheck
    \/ TrcClient
    \/ TrcDecimals
    \/ TrcBuild
    \/ TrcSign
    \/ TrcBroadcast
    \/ TrcExcept

SpecPayout == InitPayout /\ [][NextPayout]_vars

----------------------------------------------------------------------------
(* Claims *)

Done == pc = "done"
Failed == failedAt # "none"
RequestFields == {2, 3, 4, 7, 11, 14, 18, 22, 25, 35, 41, 49}

\* C1: whenever the call has returned and a socket was opened, the socket is
\* closed.  The code closes it on line 49 only.
C1_SocketClosedOnReturn ==
    (Done /\ sock # "none") => sock = "closed"

ErrorsAt(at) ==
    CASE at = "build" -> {"ValueError"}
      [] at = "encode" -> {"EncodingError", "UnknownField"}
      [] at = "socket" -> {"OSError"}
      [] at = "connect" -> {"Connection refused", "timed out", "Name or service not known"}
      [] at = "pack" -> {"struct.error"}
      [] at = "send" -> {"Broken pipe", "timed out"}
      [] at = "recv_hdr" -> {"Incomplete 2-byte header received", "timed out",
                             "Connection reset by peer"}
      [] at = "body" -> {"Socket connection broken", "timed out",
                         "Connection reset by peer"}
      [] at = "decode" -> {"TruncatedMessage", "MalformedField", "UnknownField"}
      [] at = "return" -> {"BitNotSet"}

\* C2: a failure at any step never leaves the call as a raised fault: the call
\* returns approved=false with response code "96" and the error that was raised.
C2_FailureNormalized ==
    /\ Done => result.kind \in {"ok", "error"}
    /\ Failed => /\ Done
                 /\ result.kind = "error"
                 /\ result.approved = FALSE
                 /\ result.field39 = Str96
                 /\ result.error \in ErrorsAt(failedAt)
    /\ (Done /\ ~Failed) => result.kind = "ok"
    /\ ~Done => result.kind = "pending"

\* the connect timeout of the specification's failure-normalization test
C2_Witness ==
    Done /\ failedAt = "connect" /\ result.kind = "error" /\ result.error = "timed out"

\* C3: for a response that was received and decoded and whose fields were read,
\* approved is true exactly when field 39 is "00", and the response code of the
\* result is field 39 as received; a decoded response carrying fields 4, 12 and
\* 39 always gives such a result.
C3_ApprovalMapping ==
    LET rsp == Decode(response) IN
    /\ (Done /\ result.kind = "ok") =>
          /\ rsp.ok
          /\ result.approved = (39 \in DOMAIN rsp.fields /\ rsp.fields[39] = Str00)
          /\ 39 \in DOMAIN rsp.fields => result.field39 = rsp.fields[39]
          /\ 39 \notin DOMAIN rsp.fields => result.field39 = None
    /\ (Done /\ sock = "closed" /\ rsp.ok /\ {4, 12, 39} \subseteq DOMAIN rsp.fields)
          => result.kind = "ok"

\* a decline: field 39 = "05"
C3_Witness ==
    /\ Done /\ result.kind = "ok"
    /\ result.approved = FALSE /\ result.field39 = Str05
    /\ Decode(response).fields[39] = Str05

ShortBodyHost ==
    /\ peer.end = "close"
    /\ Len(peer.bytes) >= 2
    /\ Len(peer.bytes) - 2 < UnpackLen(peer.bytes)

\* C4: once the 2-byte header announcing `length` has been read, a host that
\* closes after fewer than `length` body bytes makes the body loop fail with the
\* short-body error and the call return a failure; and whatever the
\* segmentation, a body shorter than `length` is never decoded and never gives
\* a non-error result.
C4_ShortBodyFails ==
    /\ (Done /\ ShortBodyHost) =>
          /\ result.kind = "error"
          /\ iso_response = NewIso
          /\ sock # "closed"
    /\ (Done /\ ShortBodyHost /\ Len(raw_len) = 2) =>
          /\ failedAt = "body"
          /\ result.error = "Socket connection broken"
    /\ (pc \in {"decode", "return"} \/ failedAt \in {"decode", "return"}
          \/ result.kind = "ok") => Len(response) = length

\* the host closed after part of the body had been read
C4_Witness ==
    /\ Done /\ ShortBodyHost /\ failedAt = "body"
    /\ Len(response) > 0 /\ Len(response) < length
    /\ result.error = "Socket connection broken"

\* C5: the short-header error is raised exactly when the host closes before 2
\* header bytes have arrived; a header arriving as two 1-byte segments is
\* assembled.  Line 38 issues one recv(2) and line 39 rejects a 1-byte return.
C5_ShortHeaderOnlyOnClose ==
    /\ (Done /\ failedAt = "recv_hdr"
              /\ result.error = "Incomplete 2-byte header received")
          => (peer.end = "close" /\ Len(peer.bytes) < 2)
    /\ (Done /\ rpos >= 1 /\ Len(peer.bytes) >= 2) => Len(raw_len) = 2

\* C6: what is handed to sendall is the 2-byte big-endian length of msg followed
\* by msg, what reaches the wire is a prefix of it, and a msg longer than 65535
\* bytes ends the call with a failure and nothing written.
C6_FrameFormat ==
    /\ ops.sendall > 0 =>
          /\ Len(msg) <= MaxFrame
          /\ Len(msg_with_len) = 2 + Len(msg)
          /\ msg_with_len[1] \in 0..255 /\ msg_with_len[2] \in 0..255
          /\ 256 * msg_with_len[1] + msg_with_len[2] = Len(msg)
          /\ Slice(msg_with_len, 3, Len(msg)) = msg
    /\ ops.sendall = 0 => wire = << >>
    /\ IsPrefix(wire, msg_with_len)
    /\ (Len(msg) > MaxFrame /\ pc \notin {"socket", "connect", "pack"}) =>
          /\ Done
          /\ result.kind = "error"
          /\ wire = << >>
          /\ ops.sendall = 0

\* a frame whose length needs both header bytes has been written whole
C6_Witness ==
    /\ ops.sendall > 0 /\ wire = msg_with_len
    /\ Len(msg) = 300 /\ msg_with_len[1] = 1 /\ msg_with_len[2] = 44

\* the order of the transport states, and what one step may do to the socket
TransportOrder ==
    { <<"Idle", "Connected">>, <<"Connected", "Sent">>, <<"Sent", "AwaitingLength">>,
      <<"AwaitingLength", "AwaitingBody">>, <<"AwaitingBody", "Closed">> }

C7_Step ==
    /\ tstate' # tstate => <<tstate, tstate'>> \in TransportOrder
    /\ lastOp' = "connect" => (tstate = "Idle" /\ sock = "open")
    /\ lastOp' = "sendall" => tstate = "Connected"
    /\ lastOp' = "recv" =>
          \/ tstate = "Sent" /\ wire = msg_with_len /\ ops.sendall = 1
          \/ tstate = "AwaitingBody" /\ Len(raw_len) = 2
    /\ lastOp' = "close" => (tstate = "AwaitingBody" /\ Len(raw_len) = 2)
    /\ lastOp' # "none" => (tstate # "Closed" /\ ~Done)
    /\ tstate' = "AwaitingBody" => Len(raw_len') = 2

\* C7: the transport state changes only along Idle, Connected, Sent,
\* AwaitingLength, AwaitingBody, Closed, one step at a time; connect is issued in
\* Idle, sendall in Connected, the header read in Sent with the whole frame
\* written, a body read or the close in AwaitingBody with a 2-byte header, and
\* no socket operation is issued in Closed or after the call has returned.
C7_TransportOrder == [][C7_Step]_vars

\* the whole chain was walked
C7_Witness ==
    tstate = "Closed" /\ lastOp = "close" /\ ops.recv_hdr = 1 /\ Len(response) > 0

\* a step taken after an exception was raised
C8_Step ==
    Failed => (ops' = ops /\ rpos' = rpos /\ wire' = wire /\ sock' = sock)

\* C8: a call issues at most one connect, one sendall and one header read, never
\* reads past the one frame announced, and once an exception has been raised
\* issues no socket operation at all.
C8_SingleExchange ==
    /\ [](/\ ops.socket <= 1 /\ ops.connect <= 1 /\ ops.sendall <= 1
          /\ ops.recv_hdr <= 1 /\ ops.close <= 1
          /\ rpos <= 2 + length)
    /\ [][C8_Step]_vars

\* a reset in the middle of the body, after one connect, one send, one header
C8_Witness ==
    /\ Done /\ failedAt = "body" /\ result.error = "Connection reset by peer"
    /\ ops = [socket |-> 1, connect |-> 1, sendall |-> 1, recv_hdr |-> 1, close |-> 0]

\* amounts 0 <= n < 10^12, their 12 digits, and the echoing host's approvals
AmountInRange ==
    /\ inp.amount_cents.kind = "int"
    /\ ~inp.amount_cents.neg
    /\ Len(inp.amount_cents.digits) <= 12

Pad12 ==
    Rep(48, 12 - Len(inp.amount_cents.digits)) \o DigitsToStr(inp.amount_cents.digits)

EchoApprovals ==
    { HostFrame(Encode(Reply(Str0110, Str00, Pad12, w)).bytes) : w \in BOOLEAN }

\* C9: for 0 <= n < 10^12 the request carries field 4 as n in 12 digits, and an
\* echoing host's approval (MTI "0110", field 39 "00", field 4 echoed) gives
\* approved=true, mti "0110" and amountReceived equal to those 12 digits.
C9_EndToEnd ==
    AmountInRange =>
       /\ pc # "build" => (4 \in DOMAIN iso.fields /\ iso.fields[4] = Pad12)
       /\ wire # << >> /\ wire = msg_with_len =>
             Decode(Slice(wire, 3, Len(wire) - 2)).fields[4] = Pad12
       /\ (Done /\ wire = msg_with_len /\ peer.bytes \in EchoApprovals) =>
             /\ result.kind = "ok"
             /\ result.approved = TRUE
             /\ result.mti = Str0110
             /\ result.amount_received = Pad12

\* C10: the request that was built has MTI "0100" and exactly the fields
\* 2,3,4,7,11,14,18,22,25,35,41,49, and the bitmap of its encoding has exactly
\* those bits set.
C10_RequestFields ==
    /\ (pc # "build" /\ failedAt # "build") =>
          /\ iso.mti = Str0100
          /\ DOMAIN iso.fields = RequestFields
    /\ (pc \notin {"build", "encode"} /\ failedAt \notin {"build", "encode"}) =>
          /\ Slice(msg, 1, 4) = Str0100
          /\ BitmapFields(Slice(msg, 5, 8)) = RequestFields
          /\ ~BitSet(Slice(msg, 5, 8), 1)
          /\ ~BitSet(Slice(msg, 5, 8), 12)
          /\ ~BitSet(Slice(msg, 5, 8), 39)

\* an encoded request is about to be framed
C10_Witness ==
    pc = "pack" /\ Len(msg) > 12 /\ DOMAIN iso.fields = RequestFields

\* what the dictionary refuses in the request: a PAN of more than 19 digits, an
\* amount whose 12-wide format is not 12 digits
BadPan == Len(inp.pan) > 19
BadAmount ==
    /\ inp.amount_cents.kind = "int"
    /\ LET a == Format012(inp.amount_cents).str IN ~(Len(a) = 12 /\ AllDigits(a))

\* C11: a request whose PAN has more than 19 digits, or whose field 4 is not 12
\* digits, never gets past encoding: the call returns approved=false with
\* response code "96", no socket is opened and nothing is written.
C11_InvalidFieldNotSent ==
    (BadPan \/ BadAmount) =>
       /\ pc \notin {"build", "encode"} =>
             /\ Done
             /\ failedAt \in {"build", "encode"}
             /\ inp.amount_cents.kind = "int" => failedAt = "encode"
             /\ result.kind = "error"
             /\ result.approved = FALSE
             /\ result.field39 = Str96
       /\ wire = << >>
       /\ sock = "none"
       /\ ops.socket = 0 /\ ops.connect = 0 /\ ops.sendall = 0

\* a 20-digit PAN with a good amount, and a 13-digit amount with a good PAN
C11_Witness ==
    /\ Done /\ failedAt = "encode" /\ result.error = "EncodingError"
    /\ \/ BadPan /\ ~BadAmount
       \/ BadAmount /\ ~BadPan /\ Len(iso.fields[4]) = 13

NoSocketActivity ==
    /\ sock = "none"
    /\ tstate = "Idle"
    /\ ops = [socket |-> 0, connect |-> 0, sendall |-> 0, recv_hdr |-> 0, close |-> 0]
    /\ wire = << >>
    /\ rpos = 0

\* C14: the request is built and encoded before anything is done to a socket:
\* while it is being built or encoded, and after a failure of either, no socket
\* was created, no connect attempted and no byte written; and once a socket
\* exists, msg is the encoding of the whole request.
C14_EncodeBeforeConnect ==
    /\ pc \in {"build", "encode"} => NoSocketActivity
    /\ failedAt \in {"build", "encode"} => (Done /\ NoSocketActivity)
    /\ ops.socket > 0 =>
          /\ DOMAIN iso.fields = RequestFields
          /\ Encode(iso).ok
          /\ msg = Encode(iso).bytes

\* the amount could not be formatted, so the request was never complete
C14_Witness ==
    /\ Done /\ failedAt = "build" /\ result.error = "ValueError"
    /\ 4 \notin DOMAIN iso.fields
    /\ NoSocketActivity

\* C16: the bytes accumulated by the body loop never exceed the announced
\* length and are, in stream order, the bytes that follow the header; nothing
\* beyond the frame is taken from the stream; what is decoded is exactly the
\* `length` bytes after the header, however they were segmented; and a header
\* announcing 0 gives the decoder the empty body with no body read issued.
C16_BodyExact ==
    /\ Len(response) <= length
    /\ response = Slice(peer.bytes, 3, Len(response))
    /\ Len(raw_len) = 2 => rpos = 2 + Len(response)
    /\ (pc \in {"decode", "return"} \/ failedAt \in {"decode", "return"}
          \/ result.kind = "ok") =>
          /\ Len(response) = length
          /\ response = Slice(peer.bytes, 3, length)
    /\ (length = 0 /\ Len(raw_len) = 2) =>
          /\ response = << >>
          /\ rpos = 2
          /\ pc = "body" => lastOp = "none"
          /\ pc # "body" => tstate = "Closed"

\* a body that arrived in pieces was decoded whole with bytes left in the stream
C16_Witness ==
    /\ pc = "return" /\ length > MaxChunk + 1
    /\ Avail = 2
    /\ response = Slice(peer.bytes, 3, length)

\* a zero-length frame: the socket is closed with no body read
C16_WitnessEmpty ==
    /\ pc = "decode" /\ length = 0 /\ Len(raw_len) = 2 /\ lastOp = "close"
    /\ response = << >> /\ Avail = 2

\* what a call may return for the response bytes r, written without any
\* reference to the request: the decoding error, or the fields 39, 4 and 12 and
\* the MTI as decoded, or the lookup error of a field r does not carry
ResultsOf(r) ==
    LET d == Decode(r) IN
    IF ~d.ok
    THEN { [kind |-> "error", approved |-> FALSE, error |-> d.err, field39 |-> Str96] }
    ELSE LET has(n) == n \in DOMAIN d.fields
             val(n) == IF has(n) THEN d.fields[n] ELSE None
         IN { [kind |-> "ok", approved |-> (val(39) = Str00), field39 |-> val(39),
               mti |-> d.mti, amount_received |-> val(4),
               transaction_time |-> val(12)] }
            \cup (IF has(39) /\ has(4) /\ has(12) THEN {}
                  ELSE { [kind |-> "error", approved |-> FALSE, error |-> "BitNotSet",
                          field39 |-> Str96] })

\* C17: the result of a completed exchange is determined by the response bytes
\* alone: it is one of the results those bytes give whatever the request was
\* (exactly one when the response carries fields 4, 12 and 39), so two calls
\* with different requests and the same response bytes return the same result.
C17_ResponseOnly ==
    (Done /\ sock = "closed") =>
       /\ result \in ResultsOf(response)
       /\ (Decode(response).ok /\ {4, 12, 39} \subseteq DOMAIN Decode(response).fields)
             => ResultsOf(response) = {result}

\* approved although the response carries another amount than the request, no
\* trace number at all, and the MTI "0210", which is not the pair of the request's "0100"
C17_Witness ==
    /\ Done /\ result.kind = "ok" /\ result.approved = TRUE
    /\ result.amount_received # iso.fields[4]
    /\ 11 \notin DOMAIN iso_response.fields
    /\ result.mti # Str0110

\* one iteration of the body loop (lines 44-48): recv was called
C15_Step ==
    (pc = "body" /\ lastOp' = "recv") =>
       \/ pc' = "body" /\ Len(response') > Len(response) /\ Len(response') <= length
       \/ Done' /\ failedAt' = "body"

\* C15: the call always ends with a result; every iteration of the body loop
\* either adds at least one byte to the accumulation, which never exceeds
\* length <= 65535, or leaves the loop with a failure, so the loop runs at most
\* `length` times, also when the host delivers one byte at a time.
C15_Terminates ==
    /\ <>Done
    /\ [](length <= MaxFrame /\ Len(response) <= length)
    /\ [][C15_Step]_vars

\* a host delivering single bytes: several iterations, one byte each
C15_Witness ==
    /\ pc = "body" /\ lastOp = "recv"
    /\ Len(response) = MaxChunk + 1 /\ length > MaxChunk + 1
    /\ rpos = 2 + Len(response)

\* every fixed-length value of m has the full width of its field
FullWidth(m) ==
    \A n \in DOMAIN m.fields :
       FieldSpec(n).rule = "fixed" => Len(m.fields[n]) = FieldSpec(n).len

RoundTrips ==
    /\ pc \in {"socket", "decode"} => msg = Encode(iso).bytes
    /\ pc = "decode" => response = msg
    /\ failedAt # "encode" => failedAt = "none"
    /\ pc = "return" => iso_response = iso

ErcRefused == ops.erc20 > 0 /\ ~ErcParamsOk
TrcRefused == ops.trc20 > 0 /\ ~TrcParamsOk
NothingStarted == ops.node = 0 /\ ops.sign = 0 /\ wire = << >>
Unsupported ==
    inp.entry = "process" /\ Upper(inp.network) \notin {NetERC20, NetTRC20}
RaisedValueError ==
    Done /\ result.kind = "raised" /\ result.error = "ValueError"

\* C18: a payout function entered with a missing or falsy parameter raises
\* ValueError with no node request, no signature and no broadcast made; and
\* process_crypto_payout with a network other than ERC20 or TRC20 in any case
\* of letters raises ValueError and enters neither payout function.  Line 115
\* converts the amount before line 117 looks at the network.
C18_ValueErrorFirst ==
    /\ (ErcRefused /\ pc # "erc_check") =>
          (RaisedValueError /\ failedAt = "erc_check" /\ NothingStarted)
    /\ (TrcRefused /\ pc # "trc_check") =>
          (RaisedValueError /\ failedAt = "trc_check" /\ NothingStarted)
    /\ Unsupported =>
          /\ ops.erc20 = 0 /\ ops.trc20 = 0 /\ NothingStarted
          /\ pc \notin {"call", "process", "dispatch"} => RaisedValueError

\* C18, amended: as above, except that for an unsupported network the exception
\* is ValueError when the amount converts to a Decimal and the conversion's
\* InvalidOperation when it does not; neither payout function is entered.
C18_ValueErrorOrConversion ==
    /\ (ErcRefused /\ pc # "erc_check") =>
          (RaisedValueError /\ failedAt = "erc_check" /\ NothingStarted)
    /\ (TrcRefused /\ pc # "trc_check") =>
          (RaisedValueError /\ failedAt = "trc_check" /\ NothingStarted)
    /\ Unsupported =>
          /\ ops.erc20 = 0 /\ ops.trc20 = 0 /\ NothingStarted
          /\ pc \notin {"call", "process", "dispatch"} =>
                /\ Done /\ result.kind = "raised"
                /\ DecimalOf(inp.amount).ok =>
                      (result.error = "ValueError" /\ failedAt = "dispatch")
                /\ ~DecimalOf(inp.amount).ok =>
                      (result.error = "InvalidOperation" /\ failedAt = "process")

\* "erc2" with a good amount: refused on line 135
C18_Witness ==
    /\ Unsupported /\ RaisedValueError /\ failedAt = "dispatch"
    /\ Len(inp.network) = 4 /\ inp.amount = "pos"

\* a zero amount reaches send_trc20_payout through process_crypto_payout
C18_WitnessZero ==
    /\ TrcRefused /\ RaisedValueError /\ inp.entry = "process"
    /\ inp.amount = "strzero" /\ Truthy(inp.private_key) /\ Truthy(inp.to_address)
    /\ Truthy(inp.contract_address)

\* the positions inside the try blocks of lines 43-66 and 78-104
InTry ==
    {"erc_connect", "erc_prepare", "erc_decimals", "erc_amount", "erc_build",
     "erc_sign", "erc_send", "trc_client", "trc_decimals", "trc_build",
     "trc_sign", "trc_broadcast"}

\* C19: a payout call broadcasts at most once; a value is returned only after
\* that one broadcast was accepted, and it is the broadcast's transaction id;
\* every failure inside the try block (node not connected, SDK error, rejected
\* broadcast, TRC20 answer without txid) is logged once and raised again, never
\* returned, and nothing is broadcast after a failure.
C19_BroadcastOnce ==
    /\ Len(wire) <= 1
    /\ result.kind = "returned" =>
          /\ Done /\ failedAt = "none"
          /\ Len(wire) = 1 /\ wire[1].accepted
          /\ Truthy(result.value) /\ result.value = wire[1].txid
          /\ ops.log_error = 0
    /\ failedAt # "none" =>
          /\ result.kind \in {"raising", "raised"}
          /\ pc \in {"erc_except", "trc_except", "done"}
          /\ failedAt \notin {"erc_send", "trc_broadcast"} => wire = << >>
    /\ (Done /\ failedAt \in InTry) =>
          /\ result.kind = "raised"
          /\ ops.log_error = 1
          /\ failedAt = "erc_connect" => result.error = "ConnectionError"
    /\ (Len(wire) = 1 /\ ~wire[1].accepted) =>
          failedAt \in {"erc_send", "trc_broadcast"}
    /\ Done => result.kind \in {"returned", "raised"}

\* the TRC20 node answered the broadcast without a txid
C19_Witness ==
    /\ Done /\ failedAt = "trc_broadcast" /\ result.kind = "raised"
    /\ Len(wire) = 1 /\ wire[1].txid = ""
    /\ ops.log_error = 1 /\ ops.sign = 1

\* the states each call can be in when it runs alone
Alone == [c \in Calls |-> SoloStates(ConcInputs[c])]

\* C13: in every interleaving of two calls, each call is at every moment in a
\* state it can be in when it runs alone with the same arguments against the
\* same host bytes, its result included; its request, its bytes and its socket
\* are those of its own arguments and its own host.
C13_Independent ==
    \A c \in Calls :
       /\ Local(c) \in Alone[c]
       /\ inp[c] = ConcInputs[c]
       /\ pc[c] \notin {"build"} => iso[c].fields[4] = Format012(inp[c].amount_cents).str
       /\ IsPrefix(wire[c], PackFrame(Encode(BuildRequest(inp[c],
                               Format012(inp[c].amount_cents).str)).bytes).bytes)
       /\ (pc[c] = "done" /\ result[c].kind = "ok") =>
             result[c].amount_received = Format012(inp[c].amount_cents).str

\* call 1 has returned its approval, for its own amount, while call 2 is in the
\* middle of reading its own response from its own socket
C13_Witness ==
    /\ pc[1] = "done" /\ result[1].kind = "ok" /\ result[1].approved
    /\ result[1].amount_received = iso[1].fields[4]
    /\ pc[2] = "body" /\ sock[2] = "open" /\ Len(response[2]) > 0
    /\ iso[2].fields[4] # iso[1].fields[4]
    /\ wire[2] # wire[1]

====
